---------------------------- MODULE Spec2Model ----------------------------
(***************************************************************************)
(* Model of the SEO content quality analyzer (streamlit_app).              *)
(*                                                                         *)
(*   utils/features.py  count_sentences, calculate_readability,            *)
(*                      extract_features                                   *)
(*   utils/parser.py    parse_html_content, clean_text                     *)
(*   utils/scorer.py    load_model, predict_quality,                       *)
(*                      calculate_quality_score                            *)
(*   app.py             the Streamlit script: get_model (cached), the      *)
(*                      analysis block, the recommendations block, the     *)
(*                      example buttons                                    *)
(*                                                                         *)
(* Texts and URLs are sequences of one-character strings.  Readability     *)
(* values (floats in the code) are integers in units of 1/ReadabilityScale *)
(* so that values strictly between two thresholds exist.  External         *)
(* libraries (textstat, requests, BeautifulSoup, pickle, the classifier)   *)
(* are nondeterministic choices over the outcomes they can produce,        *)
(* a raised exception included.                                            *)
(*                                                                         *)
(* Specifications:                                                         *)
(*   Spec         the Streamlit process: script runs of app.py             *)
(*   SpecExtract  extract_features applied to a text                       *)
(*   SpecScore    calculate_quality_score and the recommendations block    *)
(*                applied to a features record                             *)
(*   SpecPredict  predict_quality applied to a record and a schema         *)
(***************************************************************************)
EXTENDS Integers, Sequences, FiniteSets, TLC

VARIABLES
    cache,          \* st.cache_resource entry of get_model (process wide)
    load_calls,     \* number of times load_model has been called
    session_state,  \* st.session_state of the browser session
    rerun_pending,  \* st.rerun() was called by the last script run
    pc,             \* position of the running script, "idle" between runs
    event,          \* the widget event that started the running script
    locals,         \* names bound by the last script run, with their values
    messages,       \* st.error / st.warning / st.success of the last run
    fn_args,        \* arguments of the function under test
    fn_ret          \* its result, once it was applied

vars == <<cache, load_calls, session_state, rerun_pending, pc, event, locals,
          messages, fn_args, fn_ret>>

appVars == <<cache, load_calls, session_state, rerun_pending, pc, event, locals,
             messages>>

(***************************************************************************)
(* Bounds of the model and constants of the program.                       *)
(***************************************************************************)
\* longest pattern a text of SpecExtract is built from
MaxPat == 3
\* longest pattern a page text of Spec is built from
MaxAppPat == 2
\* readability values are multiples of 1/ReadabilityScale
ReadabilityScale == 10
\* word and sentence counts 0..MaxSmallWords x 0..MaxSmallSentences are all tried
MaxSmallWords == 32
MaxSmallSentences == 3
\* longest feature schema and largest feature value of SpecPredict
MaxCols == 2
MaxVal == 2
\* load_model calls after which no further script run is started
MaxLoads == 3

\* features.py:15  if len(text) < 100
MinReadabilityLen == 100

None == "None"

(***************************************************************************)
(* Characters and strings.                                                 *)
(***************************************************************************)
Whitespace == {" ", "\n"}

\* the character class [.!?] of count_sentences
Terminators == {".", "!", "?"}

IsSpace(c) == c \in Whitespace

\* str.strip(): drop leading and trailing whitespace
Strip(s) ==
    IF \A i \in 1..Len(s) : IsSpace(s[i]) THEN <<>>
    ELSE LET lo == CHOOSE i \in 1..Len(s) :
                      ~IsSpace(s[i]) /\ \A j \in 1..(i - 1) : IsSpace(s[j])
             hi == CHOOSE i \in 1..Len(s) :
                      ~IsSpace(s[i]) /\ \A j \in (i + 1)..Len(s) : IsSpace(s[j])
         IN  SubSeq(s, lo, hi)

\* len(text.split()): the number of maximal runs of non-whitespace characters
SplitCount(t) ==
    Cardinality({i \in 1..Len(t) : ~IsSpace(t[i]) /\ (i = 1 \/ IsSpace(t[i-1]))})

\* re.sub(r'\s+', ' ', text): every run of whitespace becomes one space.
\* CollapseRange is the part of the result that comes from t[lo..hi].
RECURSIVE CollapseRange(_, _, _)
CollapseRange(t, lo, hi) ==
    IF lo > hi THEN <<>>
    ELSE IF lo = hi
         THEN IF IsSpace(t[lo])
              THEN IF lo > 1 /\ IsSpace(t[lo - 1]) THEN <<>> ELSE <<" ">>
              ELSE <<t[lo]>>
         ELSE LET mid == (lo + hi) \div 2
              IN  CollapseRange(t, lo, mid) \o CollapseRange(t, mid + 1, hi)

CollapseWhitespace(t) == CollapseRange(t, 1, Len(t))

\* str.lower() on the characters of the model
LowerChar(c) == IF c = "A" THEN "a" ELSE c

Lower(t) == [i \in 1..Len(t) |-> LowerChar(t[i])]

\* str.startswith(prefix)
StartsWith(s, p) == Len(s) >= Len(p) /\ SubSeq(s, 1, Len(p)) = p

\* re.split(r'[.!?]+', text): the segments between runs of terminators, the
\* empty leading and trailing ones included
\* SplitRange is re.split on t[lo..hi], lo <= hi; two halves join at a run of
\* terminators that crosses the middle, or else at the segment that does.
RECURSIVE SplitRange(_, _, _)
SplitRange(t, lo, hi) ==
    IF lo = hi
    THEN IF t[lo] \in Terminators THEN <<(<<>>), (<<>>)>> ELSE << <<t[lo]>> >>
    ELSE LET mid == (lo + hi) \div 2
             left == SplitRange(t, lo, mid)
             right == SplitRange(t, mid + 1, hi)
         IN  IF t[mid] \in Terminators /\ t[mid + 1] \in Terminators
             THEN SubSeq(left, 1, Len(left) - 1) \o SubSeq(right, 2, Len(right))
             ELSE SubSeq(left, 1, Len(left) - 1)
                    \o << left[Len(left)] \o right[1] >>
                    \o SubSeq(right, 2, Len(right))

ReSplit(t) == IF t = <<>> THEN << <<>> >> ELSE SplitRange(t, 1, Len(t))

(***************************************************************************)
(* utils/features.py                                                       *)
(***************************************************************************)
count_sentences_unstripped(text) ==
    LET sentences == ReSplit(text)
    IN  Cardinality({i \in 1..Len(sentences) : sentences[i] # <<>>})

count_sentences(text) ==
    LET sentences == ReSplit(text)
    IN  Cardinality({i \in 1..Len(sentences) : Strip(sentences[i]) # <<>>})

\* formula is the outcome of textstat.flesch_reading_ease: it raises, or it
\* returns a value.
\* Result: the value returned (or that an exception left the function) and
\* whether the formula was called.
calculate_readability_noexcept(text, formula) ==
    IF Len(text) < MinReadabilityLen
    THEN [raised |-> FALSE, value |-> 0, called |-> FALSE]
    ELSE IF formula.raises
         THEN [raised |-> TRUE, value |-> 0, called |-> TRUE]
         ELSE [raised |-> FALSE, value |-> formula.value, called |-> TRUE]

calculate_readability(text, formula) ==
    IF Len(text) < MinReadabilityLen
    THEN [raised |-> FALSE, value |-> 0, called |-> FALSE]
    ELSE IF formula.raises
         THEN [raised |-> FALSE, value |-> 0, called |-> TRUE]
         ELSE [raised |-> FALSE, value |-> formula.value, called |-> TRUE]

extract_features(text, formula) ==
    LET word_count == SplitCount(text)
        sentence_count == count_sentences(text)
        readability == calculate_readability(text, formula)
    IN  IF readability.raised
        THEN [raised |-> TRUE, called |-> readability.called]
        ELSE [raised |-> FALSE, called |-> readability.called,
              value |-> [word_count |-> word_count,
                         sentence_count |-> sentence_count,
                         flesch_reading_ease |-> readability.value]]

(***************************************************************************)
(* utils/scorer.py                                                         *)
(*                                                                         *)
(* avg_words_per_sentence = word_count / sentence_count is compared with   *)
(* integers only, so a <= wc / sc is a * sc <= wc (sentence_count > 0).    *)
(***************************************************************************)
\* word count component
WordCountPoints_strict(wc) ==
    IF wc > 1500 THEN 40
    ELSE IF wc > 1000 THEN 30
    ELSE IF wc > 500 THEN 20
    ELSE 10

WordCountPoints(wc) ==
    IF wc >= 1500 THEN 40
    ELSE IF wc >= 1000 THEN 30
    ELSE IF wc >= 500 THEN 20
    ELSE 10

\* readability component
ReadabilityPoints(readability) ==
    IF 50 * ReadabilityScale <= readability /\ readability <= 70 * ReadabilityScale
    THEN 40
    ELSE IF 40 * ReadabilityScale <= readability
            /\ readability <= 80 * ReadabilityScale
    THEN 30
    ELSE IF readability > 0 THEN 20
    ELSE 10

\* sentence structure component
StructurePoints_always(wc, sc) ==
    IF sc > 0 /\ 15 * sc <= wc /\ wc <= 25 * sc THEN 20
    ELSE IF sc > 0 /\ 10 * sc <= wc /\ wc <= 30 * sc THEN 15
    ELSE 10

StructurePoints(wc, sc) ==
    IF sc > 0
    THEN IF 15 * sc <= wc /\ wc <= 25 * sc THEN 20
         ELSE IF 10 * sc <= wc /\ wc <= 30 * sc THEN 15
         ELSE 10
    ELSE 0

Min(a, b) == IF a <= b THEN a ELSE b

calculate_quality_score(features) ==
    LET score1 == 0 + WordCountPoints(features.word_count)
        score2 == score1 + ReadabilityPoints(features.flesch_reading_ease)
        score3 == score2 + StructurePoints(features.word_count,
                                           features.sentence_count)
    IN  Min(score3, 100)

\* model.predict(feature_array): predictor is the outcome of the call, an
\* exception or one output per row (at least).
\* Result: the label returned or the exception raised, and the arrays the
\* predictor was called with.
predict_quality_record_order(predictor, features, feature_columns) ==
    IF \E i \in 1..Len(feature_columns) : feature_columns[i] \notin DOMAIN features
    THEN [raised |-> TRUE, exc |-> "KeyError", calls |-> <<>>]
    ELSE LET record_order == <<"word_count", "sentence_count",
                               "flesch_reading_ease", "keyword_density">>
             position(c) == CHOOSE k \in 1..Len(record_order) : record_order[k] = c
             columns == [k \in 1..Len(feature_columns) |->
                            CHOOSE c \in {feature_columns[i] :
                                            i \in 1..Len(feature_columns)} :
                               Cardinality({i \in 1..Len(feature_columns) :
                                   position(feature_columns[i]) < position(c)}) < k
                               /\ Cardinality({i \in 1..Len(feature_columns) :
                                   position(feature_columns[i]) <= position(c)}) >= k]
             feature_array == <<[i \in 1..Len(columns) |-> features[columns[i]]]>>
         IN  IF predictor.raises
             THEN [raised |-> TRUE, exc |-> "Exception", calls |-> <<feature_array>>]
             ELSE [raised |-> FALSE, value |-> predictor.outputs[1],
                   calls |-> <<feature_array>>]

predict_quality(predictor, features, feature_columns) ==
    IF \E i \in 1..Len(feature_columns) : feature_columns[i] \notin DOMAIN features
    THEN [raised |-> TRUE, exc |-> "KeyError", calls |-> <<>>]
    ELSE LET feature_array ==
                 <<[i \in 1..Len(feature_columns) |-> features[feature_columns[i]]]>>
         IN  IF predictor.raises
             THEN [raised |-> TRUE, exc |-> "Exception", calls |-> <<feature_array>>]
             ELSE [raised |-> FALSE, value |-> predictor.outputs[1],
                   calls |-> <<feature_array>>]

(***************************************************************************)
(* app.py, the recommendations block.                                      *)
(***************************************************************************)
LengthAdvice_scorer_threshold(wc) ==
    IF wc < 500 THEN "Thin content"
    ELSE IF wc <= 1500 THEN "Good length"
    ELSE "Excellent length"

LengthAdvice(wc) ==
    IF wc < 500 THEN "Thin content"
    ELSE IF wc < 1000 THEN "Good length"
    ELSE "Excellent length"

ReadabilityAdvice(readability) ==
    IF readability < 40 * ReadabilityScale THEN "Difficult to read"
    ELSE IF readability > 80 * ReadabilityScale THEN "Too simple"
    ELSE "Good readability"

StructureAdvice(wc, sc) ==
    IF wc > 30 * sc THEN "Long sentences"
    ELSE IF wc < 10 * sc THEN "Very short sentences"
    ELSE "Good sentence structure"

recommendations_block_unguarded(features) ==
    LET readability == features.flesch_reading_ease
        r1 == Append(<<>>, LengthAdvice(features.word_count))
        r2 == Append(r1, ReadabilityAdvice(readability))
    IN  Append(r2, StructureAdvice(features.word_count, features.sentence_count))

recommendations_block(features) ==
    LET readability == features.flesch_reading_ease
        r1 == Append(<<>>, LengthAdvice(features.word_count))
        r2 == Append(r1, ReadabilityAdvice(readability))
    IN  IF features.sentence_count > 0
        THEN Append(r2, StructureAdvice(features.word_count,
                                        features.sentence_count))
        ELSE r2

(***************************************************************************)
(* utils/parser.py                                                         *)
(***************************************************************************)
\* soup is the outcome of BeautifulSoup on the page: an exception with its
\* message, or the title and the text get_text returns.
parse_html_content(soup) ==
    IF soup.raises
    THEN [title |-> "", body_text |-> <<>>, word_count |-> 0,
          error |-> soup.error]
    ELSE LET text == Strip(CollapseWhitespace(soup.text))
         IN  [title |-> soup.title, body_text |-> text,
              word_count |-> SplitCount(text)]

clean_text(text) == Strip(CollapseWhitespace(Lower(text)))

(***************************************************************************)
(* utils/scorer.py, load_model.  artifact is the state of                  *)
(* models/quality_model.pkl when it is read.                               *)
(***************************************************************************)
load_model(artifact) ==
    IF ~artifact.exists
    THEN [raised |-> TRUE, exc |-> "Failed to load model: Model file not found"]
    ELSE IF ~artifact.unpickles
    THEN [raised |-> TRUE, exc |-> "Failed to load model: unpickling"]
    ELSE [raised |-> FALSE, model |-> artifact.model,
          feature_columns |-> artifact.feature_columns]

(***************************************************************************)
(* app.py, get_model under st.cache_resource: the first call runs the      *)
(* body and stores what it returns, every later call returns the entry.    *)
(***************************************************************************)
get_model_uncached(entry, calls, artifact) ==
    LET loaded == load_model(artifact)
    IN  IF loaded.raised
        THEN [cache |-> [filled |-> TRUE, model |-> None, feature_columns |-> None],
              load_calls |-> calls + 1,
              model |-> None, feature_columns |-> None,
              messages |-> <<"error: Could not load model",
                             "info: Please ensure the notebook has been run">>]
        ELSE [cache |-> [filled |-> TRUE, model |-> loaded.model,
                         feature_columns |-> loaded.feature_columns],
              load_calls |-> calls + 1,
              model |-> loaded.model, feature_columns |-> loaded.feature_columns,
              messages |-> <<>>]

get_model(entry, calls, artifact) ==
    IF entry.filled
    THEN [cache |-> entry, load_calls |-> calls,
          model |-> entry.model, feature_columns |-> entry.feature_columns,
          messages |-> <<>>]
    ELSE LET loaded == load_model(artifact)
         IN  IF loaded.raised
             THEN [cache |-> [filled |-> TRUE, model |-> None,
                              feature_columns |-> None],
                   load_calls |-> calls + 1,
                   model |-> None, feature_columns |-> None,
                   messages |-> <<"error: Could not load model",
                                  "info: Please ensure the notebook has been run">>]
             ELSE [cache |-> [filled |-> TRUE, model |-> loaded.model,
                              feature_columns |-> loaded.feature_columns],
                   load_calls |-> calls + 1,
                   model |-> loaded.model,
                   feature_columns |-> loaded.feature_columns,
                   messages |-> <<>>]

(***************************************************************************)
(* Inputs.                                                                 *)
(***************************************************************************)
SeqsUpTo(S, n) == UNION {[1..k -> S] : k \in 0..n}

\* the first n characters of p repeated
Cycle(p, n) == [i \in 1..n |-> p[((i - 1) % Len(p)) + 1]]

\* a pattern as it is, and stretched to just below, at and above the
\* readability threshold
Stretch(p) ==
    IF p = <<>> THEN {p}
    ELSE {p} \cup {Cycle(p, n) : n \in {MinReadabilityLen - 1, MinReadabilityLen,
                                        MinReadabilityLen + 1}}

Alphabet == {"a", " ", ".", "!", "?"}

Texts == UNION {Stretch(p) : p \in SeqsUpTo(Alphabet, MaxPat)}

\* values a readability formula can return, around every threshold of the code
Readabilities ==
    {-5 * ReadabilityScale, -1, 0, 1,
     40 * ReadabilityScale - 1, 40 * ReadabilityScale, 40 * ReadabilityScale + 1,
     50 * ReadabilityScale - 1, 50 * ReadabilityScale, 50 * ReadabilityScale + 1,
     60 * ReadabilityScale,
     70 * ReadabilityScale - 1, 70 * ReadabilityScale, 70 * ReadabilityScale + 1,
     80 * ReadabilityScale - 1, 80 * ReadabilityScale, 80 * ReadabilityScale + 1,
     120 * ReadabilityScale}

\* outcomes of textstat.flesch_reading_ease tried on a text
FormulaOutcomes ==
    {[raises |-> TRUE, value |-> 0]}
        \cup {[raises |-> FALSE, value |-> r] :
                 r \in {-5 * ReadabilityScale, 0, 60 * ReadabilityScale,
                        120 * ReadabilityScale}}

NotApplied == [applied |-> FALSE]

EmptyDict == [n \in {} |-> None]

NoEvent == [analyze_click |-> FALSE, example_click |-> 0]

AppInit ==
    /\ cache = [filled |-> FALSE]
    /\ load_calls = 0
    /\ session_state = EmptyDict
    /\ rerun_pending = FALSE
    /\ pc = "idle"
    /\ event = NoEvent
    /\ locals = EmptyDict
    /\ messages = <<>>

(***************************************************************************)
(* SpecExtract: extract_features applied to a text.                        *)
(***************************************************************************)
InitExtract ==
    /\ AppInit
    /\ fn_args \in {[text |-> t] : t \in Texts}
    /\ fn_ret = NotApplied

ExtractFeatures ==
    /\ ~fn_ret.applied
    /\ \E formula \in FormulaOutcomes :
          fn_ret' = [applied |-> TRUE, formula |-> formula,
                     out |-> extract_features(fn_args.text, formula)]
    /\ UNCHANGED <<fn_args, appVars>>

NextExtract == ExtractFeatures

SpecExtract == InitExtract /\ [][NextExtract]_vars

(***************************************************************************)
(* SpecScore: calculate_quality_score and the recommendations block        *)
(* applied to a features record.                                           *)
(***************************************************************************)
WordCounts ==
    (0..MaxSmallWords) \cup {200, 499, 500, 501, 999, 1000, 1001,
                             1499, 1500, 1501, 1800}

SentenceCounts ==
    (0..MaxSmallSentences) \cup {49, 50, 51, 59, 60, 61, 72, 90,
                                 99, 100, 101, 149, 150, 151}

MetricsRecords ==
    [word_count : WordCounts, sentence_count : SentenceCounts,
     flesch_reading_ease : Readabilities]

InitScore ==
    /\ AppInit
    /\ fn_args \in {[features |-> f] : f \in MetricsRecords}
    /\ fn_ret = [scored |-> FALSE, quality_score |-> 0,
                 recommended |-> FALSE, recommendations |-> <<>>]

CalculateQualityScore ==
    /\ ~fn_ret.scored
    /\ fn_ret' = [fn_ret EXCEPT !.scored = TRUE,
                    !.quality_score = calculate_quality_score(fn_args.features)]
    /\ UNCHANGED <<fn_args, appVars>>

Recommend ==
    /\ ~fn_ret.recommended
    /\ fn_ret' = [fn_ret EXCEPT !.recommended = TRUE,
                    !.recommendations = recommendations_block(fn_args.features)]
    /\ UNCHANGED <<fn_args, appVars>>

NextScore == CalculateQualityScore \/ Recommend

SpecScore == InitScore /\ [][NextScore]_vars

(***************************************************************************)
(* SpecPredict: predict_quality applied to a record and a schema.          *)
(***************************************************************************)
MetricNames == {"word_count", "sentence_count", "flesch_reading_ease"}

\* a name a schema may hold that extract_features does not produce
ExtraName == "keyword_density"

Labels == {"Low", "Medium", "High"}

FeatureRecords ==
    [MetricNames -> 0..MaxVal] \cup [MetricNames \cup {ExtraName} -> 0..MaxVal]

Schemas == SeqsUpTo(MetricNames \cup {ExtraName}, MaxCols)

PredictorOutcomes ==
    {[raises |-> TRUE, outputs |-> <<>>]}
        \cup {[raises |-> FALSE, outputs |-> <<l>>] : l \in Labels}
        \cup {[raises |-> FALSE, outputs |-> <<"Low", "High">>],
              [raises |-> FALSE, outputs |-> <<"High", "Low">>]}

InitPredict ==
    /\ AppInit
    /\ fn_args \in {[features |-> f, feature_columns |-> c] :
                        f \in FeatureRecords, c \in Schemas}
    /\ fn_ret = NotApplied

PredictQuality ==
    /\ ~fn_ret.applied
    /\ \E predictor \in PredictorOutcomes :
          fn_ret' = [applied |-> TRUE, predictor |-> predictor,
                     out |-> predict_quality(predictor, fn_args.features,
                                             fn_args.feature_columns)]
    /\ UNCHANGED <<fn_args, appVars>>

NextPredict == PredictQuality

SpecPredict == InitPredict /\ [][NextPredict]_vars

(***************************************************************************)
(* Spec: the Streamlit process.  Every widget event runs app.py from the   *)
(* top; pc is the position of the running script.                          *)
(***************************************************************************)
Http == <<"h", "t", "t", "p", ":", "/", "/">>

Https == <<"h", "t", "t", "p", "s", ":", "/", "/">>

\* app.py:197-201, the part after the scheme as one element
example_urls ==
    <<Https \o <<"en.wikipedia.org/wiki/Machine_learning">>,
      Https \o <<"www.cisco.com/site/us/en/learn/topics/security/what-is-network-security.html">>,
      Https \o <<"en.wikipedia.org/wiki/Artificial_intelligence">> >>

\* what a user can type into the text input
TypedUrls ==
    {<<>>, <<"f", "t", "p", ":", "/", "/", "x">>, <<"h", "t", "t", "p">>,
     Http \o <<"a">>, Https \o <<"b">>}

\* app.py:184
PreviewLen == 500

AppAlphabet == {"A", " ", "."}

\* texts BeautifulSoup's get_text can return: a pattern as it is, and
\* stretched to the readability threshold and above it
AppTexts ==
    UNION {IF p = <<>> THEN {p}
           ELSE {p, Cycle(p, MinReadabilityLen), Cycle(p, MinReadabilityLen + 2)} :
           p \in SeqsUpTo(AppAlphabet, MaxAppPat)}

Soups ==
    {[raises |-> TRUE, error |-> e, title |-> "", text |-> <<>>] :
        e \in {"", "bs4.FeatureNotFound"}}
      \cup {[raises |-> FALSE, error |-> "", title |-> "Page", text |-> t] :
              t \in AppTexts}

FetchOutcomes == {"ConnectionError", "HTTPError", "ok"}

\* states of models/quality_model.pkl: missing, unreadable (corrupt, or
\* without the 'model' and 'feature_columns' keys), or a trained pairing
Artifacts ==
    {[exists |-> FALSE, unpickles |-> FALSE, model |-> None, feature_columns |-> <<>>],
     [exists |-> TRUE, unpickles |-> FALSE, model |-> None, feature_columns |-> <<>>],
     [exists |-> TRUE, unpickles |-> TRUE, model |-> "clfA",
      feature_columns |-> <<"word_count", "sentence_count", "flesch_reading_ease">>],
     [exists |-> TRUE, unpickles |-> TRUE, model |-> "clfB",
      feature_columns |-> <<"flesch_reading_ease", "word_count">>],
     [exists |-> TRUE, unpickles |-> TRUE, model |-> "clfC",
      feature_columns |-> <<"word_count", "keyword_density">>]}

AppPredictorOutcomes ==
    {[raises |-> TRUE, outputs |-> <<>>]}
        \cup {[raises |-> FALSE, outputs |-> <<l>>] : l \in {"Low", "Medium", "High"}}

Get(dict, key, default) == IF key \in DOMAIN dict THEN dict[key] ELSE default

Bind(dict, key, value) == (key :> value) @@ dict

\* app.py:76, url_input.startswith(('http://', 'https://'))
ValidScheme(url) == StartsWith(url, Http) \/ StartsWith(url, Https)

\* app.py:92-96: "error", "empty" or "ok"
ParseGate_no_empty_check(parsed) ==
    IF "error" \in DOMAIN parsed /\ parsed.error # "" THEN "error" ELSE "ok"

ParseGate(parsed) ==
    IF "error" \in DOMAIN parsed /\ parsed.error # "" THEN "error"
    ELSE IF parsed.word_count = 0 THEN "empty"
    ELSE "ok"

\* app.py:138-143
QualityIcon(label) ==
    IF label = "High" THEN "green"
    ELSE IF label = "Medium" THEN "yellow"
    ELSE IF label = "Low" THEN "red"
    ELSE "white"

\* app.py:148
ProgressColor(score) ==
    IF score >= 70 THEN "green" ELSE IF score >= 50 THEN "orange" ELSE "red"

\* app.py:184
Preview(body_text) ==
    IF Len(body_text) > PreviewLen
    THEN SubSeq(body_text, 1, PreviewLen) \o <<".", ".", ".">>
    ELSE body_text

\* app.py:44-78: the script from its top to the scheme check
Begin(analyze_click, example_click) ==
    /\ pc = "idle"
    /\ load_calls < MaxLoads
    /\ LET default_url == Get(session_state, "selected_url", <<>>)
           triggered == /\ "trigger_analysis" \in DOMAIN session_state
                        /\ session_state["trigger_analysis"]
           analyze_button == analyze_click \/ triggered
       IN  \E artifact \in Artifacts, url_input \in TypedUrls \cup {default_url} :
              LET got == get_model(cache, load_calls, artifact)
              IN  /\ cache' = got.cache
                  /\ load_calls' = got.load_calls
                  /\ session_state' =
                        IF triggered
                        THEN [session_state EXCEPT !["trigger_analysis"] = FALSE]
                        ELSE session_state
                  /\ locals' = [n \in {"model", "feature_columns", "default_url",
                                       "url_input", "analyze_button"} |->
                                  CASE n = "model" -> got.model
                                    [] n = "feature_columns" -> got.feature_columns
                                    [] n = "default_url" -> default_url
                                    [] n = "url_input" -> url_input
                                    [] n = "analyze_button" -> analyze_button]
                  /\ IF analyze_button /\ url_input # <<>>
                     THEN IF ~ValidScheme(url_input)
                          THEN /\ messages' = Append(got.messages,
                                                "error: Please enter a valid URL")
                               /\ pc' = "examples"
                          ELSE /\ messages' = got.messages
                               /\ pc' = "fetch"
                     ELSE /\ messages' = got.messages
                          /\ pc' = "examples"
    /\ event' = [analyze_click |-> analyze_click, example_click |-> example_click]
    /\ rerun_pending' = FALSE
    /\ UNCHANGED <<fn_args, fn_ret>>

\* the user presses "Analyze Content"
ClickAnalyze == ~rerun_pending /\ Begin(TRUE, 0)

\* the user presses one of the example buttons
ClickExample ==
    ~rerun_pending /\ \E i \in 1..Len(example_urls) : Begin(FALSE, i)

\* the page is opened, or the text input is edited
Interact == ~rerun_pending /\ Begin(FALSE, 0)

\* the run st.rerun() starts
Rerun == rerun_pending /\ Begin(FALSE, 0)

\* app.py:82-87 and the handler at 187-189
Fetch ==
    /\ pc = "fetch"
    /\ \E outcome \in FetchOutcomes :
          CASE outcome = "ConnectionError" ->
                  /\ locals' = locals
                  /\ messages' = messages \o <<"error: Failed to fetch URL",
                                               "info: Make sure the URL is accessible">>
                  /\ pc' = "examples"
            [] outcome = "HTTPError" ->
                  /\ locals' = Bind(locals, "response", "Response")
                  /\ messages' = messages \o <<"error: Failed to fetch URL",
                                               "info: Make sure the URL is accessible">>
                  /\ pc' = "examples"
            [] outcome = "ok" ->
                  /\ locals' = Bind(locals, "response", "Response")
                  /\ messages' = messages
                  /\ pc' = "parse"
    /\ UNCHANGED <<cache, load_calls, session_state, rerun_pending, event,
                   fn_args, fn_ret>>

\* app.py:90-96
Parse ==
    /\ pc = "parse"
    /\ \E soup \in Soups :
          LET parsed == parse_html_content(soup)
              gate == ParseGate(parsed)
          IN  /\ locals' = Bind(locals, "parsed", parsed)
              /\ CASE gate = "error" ->
                        /\ messages' = Append(messages, "error: Parsing error")
                        /\ pc' = "examples"
                   [] gate = "empty" ->
                        /\ messages' = Append(messages, "warning: No content extracted")
                        /\ pc' = "examples"
                   [] gate = "ok" ->
                        /\ messages' = messages
                        /\ pc' = "extract"
    /\ UNCHANGED <<cache, load_calls, session_state, rerun_pending, event,
                   fn_args, fn_ret>>

\* app.py:98-99 and the handler at 190-191
Extract ==
    /\ pc = "extract"
    /\ \E formula \in FormulaOutcomes :
          LET clean_txt == clean_text(locals["parsed"].body_text)
              extracted == extract_features(locals["parsed"].body_text, formula)
          IN  IF extracted.raised
              THEN /\ locals' = Bind(locals, "clean_txt", clean_txt)
                   /\ messages' = Append(messages, "error: Analysis error")
                   /\ pc' = "examples"
              ELSE /\ locals' = Bind(Bind(locals, "clean_txt", clean_txt),
                                     "features", extracted.value)
                   /\ messages' = messages
                   /\ pc' = "predict"
    /\ UNCHANGED <<cache, load_calls, session_state, rerun_pending, event,
                   fn_args, fn_ret>>

\* app.py:102-105 and the handler at 190-191
Predict ==
    /\ pc = "predict"
    /\ IF locals["model"] # None
       THEN \E predictor \in AppPredictorOutcomes :
               LET predicted == predict_quality(predictor, locals["features"],
                                                locals["feature_columns"])
               IN  IF predicted.raised
                   THEN /\ locals' = locals
                        /\ messages' = Append(messages, "error: Analysis error")
                        /\ pc' = "examples"
                   ELSE /\ locals' = Bind(locals, "quality_label", predicted.value)
                        /\ messages' = messages
                        /\ pc' = "render"
       ELSE /\ locals' = Bind(locals, "quality_label", "Unknown")
            /\ messages' = messages
            /\ pc' = "render"
    /\ UNCHANGED <<cache, load_calls, session_state, rerun_pending, event,
                   fn_args, fn_ret>>

\* app.py:107-185
Render ==
    /\ pc = "render"
    /\ LET features == locals["features"]
           quality_score == calculate_quality_score(features)
           shown == [n \in {"quality_score", "readability", "quality_icon",
                            "progress_color", "recommendations", "preview"} |->
                       CASE n = "quality_score" -> quality_score
                         [] n = "readability" -> features.flesch_reading_ease
                         [] n = "quality_icon" -> QualityIcon(locals["quality_label"])
                         [] n = "progress_color" -> ProgressColor(quality_score)
                         [] n = "recommendations" -> recommendations_block(features)
                         [] n = "preview" -> Preview(locals["parsed"].body_text)]
       IN  locals' = shown @@ locals
    /\ messages' = Append(messages, "success: Analysis complete")
    /\ pc' = "examples"
    /\ UNCHANGED <<cache, load_calls, session_state, rerun_pending, event,
                   fn_args, fn_ret>>

\* app.py:194-215
Examples ==
    /\ pc = "examples"
    /\ IF event.example_click > 0
       THEN /\ session_state' =
                  [n \in DOMAIN session_state \cup {"selected_url", "trigger_analysis"} |->
                      CASE n = "selected_url" -> example_urls[event.example_click]
                        [] n = "trigger_analysis" -> TRUE
                        [] OTHER -> session_state[n]]
            /\ rerun_pending' = TRUE
       ELSE UNCHANGED <<session_state, rerun_pending>>
    /\ pc' = "idle"
    /\ UNCHANGED <<cache, load_calls, event, locals, messages, fn_args, fn_ret>>

Init ==
    /\ AppInit
    /\ fn_args = EmptyDict
    /\ fn_ret = NotApplied

Next ==
    \/ ClickAnalyze
    \/ ClickExample
    \/ Interact
    \/ Rerun
    \/ Fetch
    \/ Parse
    \/ Extract
    \/ Predict
    \/ Render
    \/ Examples

Spec == Init /\ [][Next]_vars

(***************************************************************************)
(* Properties.                                                             *)
(***************************************************************************)

\* C1: calculate_quality_score returns a score in [20, 100] when
\* sentence_count > 0 and in [20, 80] when sentence_count = 0.
C1_ScoreRange ==
    fn_ret.scored =>
        LET sc == fn_args.features.sentence_count
            q == fn_ret.quality_score
        IN  /\ q \in Int
            /\ sc > 0 => (20 <= q /\ q <= 100)
            /\ sc = 0 => (20 <= q /\ q <= 80)

\* a record without sentences that scores the 80 the claim allows at most
C1_Witness ==
    /\ fn_ret.scored
    /\ fn_args.features.sentence_count = 0
    /\ fn_ret.quality_score = 80

NoTerminator(text) == \A i \in 1..Len(text) : text[i] \notin {".", "!", "?"}

HasNonWhitespace(text) == \E i \in 1..Len(text) : text[i] \notin {" ", "\n"}

\* C2 as stated: a text with none of '.', '!', '?' yields sentence_count = 0,
\* also when it contains words.
C2_NoTerminatorNoSentence ==
    (fn_ret.applied /\ NoTerminator(fn_args.text)) =>
        fn_ret.out.value.sentence_count = 0

\* C2 amended: a text with none of '.', '!', '?' yields sentence_count = 1 when
\* it holds a non-whitespace character (so whenever it contains words), and
\* sentence_count = 0 only when it is empty or all whitespace.
C2_NoTerminatorOneSentence ==
    (fn_ret.applied /\ NoTerminator(fn_args.text)) =>
        fn_ret.out.value.sentence_count =
            IF HasNonWhitespace(fn_args.text) THEN 1 ELSE 0

\* an unpunctuated text of two words, counted as one sentence
C2_Witness ==
    /\ fn_ret.applied
    /\ NoTerminator(fn_args.text)
    /\ fn_ret.out.value.word_count = 2
    /\ fn_ret.out.value.sentence_count = 1

\* C3 as stated: a run that reached feature extraction ends with the metrics,
\* the score, the recommendations and a label, whatever classification does.
C3_CompletePayload ==
    (pc = "idle" /\ "features" \in DOMAIN locals) =>
        /\ {"quality_label", "quality_score", "recommendations"} \subseteq DOMAIN locals
        /\ "success: Analysis complete" \in {messages[i] : i \in 1..Len(messages)}

\* what holds of the cache entry in every state: one load at most, the run's
\* model and feature_columns are the entry's, (None, None) gives "Unknown"
C4_Cached ==
    /\ load_calls <= 1
    /\ "model" \in DOMAIN locals =>
          /\ cache.filled
          /\ load_calls = 1
          /\ locals["model"] = cache.model
          /\ IF cache.model = None
             THEN /\ cache.feature_columns = None
                  /\ locals["feature_columns"] = None
                  /\ "quality_label" \in DOMAIN locals
                        => locals["quality_label"] = "Unknown"
             ELSE /\ locals["feature_columns"] = cache.feature_columns
                  /\ \E a \in Artifacts :
                        /\ a.exists /\ a.unpickles
                        /\ a.model = cache.model
                        /\ a.feature_columns = cache.feature_columns

\* C4: load_model is called at most once in the process; what the first call
\* of get_model returned is kept unchanged and is what every later run uses;
\* after a failed load every label reported is "Unknown"; after a successful
\* one the pairing is the artifact's.
C4_LoadOnce ==
    /\ []C4_Cached
    /\ [][cache.filled => (cache' = cache /\ load_calls' = load_calls)]_vars

\* after a failed load, a later run (the one an example button started)
\* analysed a page and reported "Unknown"
C4_Witness ==
    /\ pc = "idle"
    /\ load_calls = 1
    /\ cache.filled /\ cache.model = None
    /\ "trigger_analysis" \in DOMAIN session_state
    /\ "quality_label" \in DOMAIN locals
    /\ locals["quality_label"] = "Unknown"

LengthEntries == {"Thin content", "Good length", "Excellent length"}

ReadabilityEntries == {"Difficult to read", "Too simple", "Good readability"}

StructureEntries ==
    {"Long sentences", "Very short sentences", "Good sentence structure"}

\* C5: the recommendation list is one length entry, then one readability
\* entry, then one structure entry exactly when sentence_count > 0: three
\* entries when sentence_count > 0, two when it is 0.
C5_RecommendationShape ==
    fn_ret.recommended =>
        LET recs == fn_ret.recommendations
            sc == fn_args.features.sentence_count
        IN  /\ Len(recs) = IF sc > 0 THEN 3 ELSE 2
            /\ recs[1] \in LengthEntries
            /\ recs[2] \in ReadabilityEntries
            /\ sc > 0 => recs[3] \in StructureEntries

\* a record with words and no sentence, with two entries
C5_Witness ==
    /\ fn_ret.recommended
    /\ fn_args.features.sentence_count = 0
    /\ fn_args.features.word_count > 0
    /\ Len(fn_ret.recommendations) = 2

\* C6: no exception leaves calculate_readability; a text shorter than 100
\* characters gets 0.0 without the formula being called, a longer one on
\* which the formula raises gets 0.0; extract_features returns word_count
\* and sentence_count in both cases.
C6_ReadabilityNeverRaises ==
    fn_ret.applied =>
        /\ ~fn_ret.out.raised
        /\ {"word_count", "sentence_count", "flesch_reading_ease"}
              \subseteq DOMAIN fn_ret.out.value
        /\ Len(fn_args.text) < 100 =>
              (fn_ret.out.value.flesch_reading_ease = 0 /\ ~fn_ret.out.called)
        /\ (Len(fn_args.text) >= 100 /\ fn_ret.formula.raises) =>
              fn_ret.out.value.flesch_reading_ease = 0
        /\ (Len(fn_args.text) >= 100 /\ ~fn_ret.formula.raises) =>
              fn_ret.out.value.flesch_reading_ease = fn_ret.formula.value

\* a text of exactly 100 characters on which the formula raised
C6_Witness ==
    /\ fn_ret.applied
    /\ Len(fn_args.text) = 100
    /\ fn_ret.formula.raises
    /\ fn_ret.out.called
    /\ fn_ret.out.value.flesch_reading_ease = 0
    /\ fn_ret.out.value.word_count > 0

\* C7: the score is the sum of the length, readability and structure
\* ladders, all bounds inclusive, and the clamp to 100 never changes the sum.
C7_ScoreIsLadderSum ==
    fn_ret.scored =>
        LET wc == fn_args.features.word_count
            sc == fn_args.features.sentence_count
            r == fn_args.features.flesch_reading_ease
            length == CASE wc >= 1500 -> 40
                        [] wc >= 1000 /\ wc < 1500 -> 30
                        [] wc >= 500 /\ wc < 1000 -> 20
                        [] wc < 500 -> 10
            inBand(lo, hi) == lo * ReadabilityScale <= r /\ r <= hi * ReadabilityScale
            read == CASE inBand(50, 70) -> 40
                      [] ~inBand(50, 70) /\ inBand(40, 80) -> 30
                      [] ~inBand(40, 80) /\ r > 0 -> 20
                      [] ~inBand(40, 80) /\ r <= 0 -> 10
            avgIn(lo, hi) == lo * sc <= wc /\ wc <= hi * sc
            structure == CASE sc = 0 -> 0
                           [] sc > 0 /\ avgIn(15, 25) -> 20
                           [] sc > 0 /\ ~avgIn(15, 25) /\ avgIn(10, 30) -> 15
                           [] sc > 0 /\ ~avgIn(10, 30) -> 10
        IN  /\ fn_ret.quality_score = length + read + structure
            /\ length + read + structure <= 100
            /\ wc = 500 => length = 20
            /\ r = 50 * ReadabilityScale => read = 40

\* 500 words, readability exactly 50, one sentence: 20 + 40 + 10
C7_Witness ==
    /\ fn_ret.scored
    /\ fn_args.features.word_count = 500
    /\ fn_args.features.flesch_reading_ease = 50 * ReadabilityScale
    /\ fn_args.features.sentence_count = 1
    /\ fn_ret.quality_score = 70

\* C8: with every schema name in the record, the predictor is called once,
\* with one row whose i-th entry is features[feature_columns[i]], and its
\* first output is returned unchanged; with a schema name absent, KeyError is
\* raised, nothing is returned and the predictor is not called.
C8_SchemaOrder ==
    fn_ret.applied =>
        LET cols == fn_args.feature_columns
            f == fn_args.features
            out == fn_ret.out
        IN  IF \A i \in 1..Len(cols) : cols[i] \in DOMAIN f
            THEN /\ Len(out.calls) = 1
                 /\ Len(out.calls[1]) = 1
                 /\ Len(out.calls[1][1]) = Len(cols)
                 /\ \A i \in 1..Len(cols) : out.calls[1][1][i] = f[cols[i]]
                 /\ fn_ret.predictor.raises => out.raised
                 /\ ~fn_ret.predictor.raises =>
                       (~out.raised /\ out.value = fn_ret.predictor.outputs[1])
            ELSE /\ out.raised
                 /\ out.exc = "KeyError"
                 /\ "value" \notin DOMAIN out
                 /\ out.calls = <<>>

\* a schema in another order than the record's fields, on distinct values
C8_Witness ==
    /\ fn_ret.applied
    /\ fn_args.feature_columns = <<"flesch_reading_ease", "word_count">>
    /\ fn_args.features["flesch_reading_ease"] = 2
    /\ fn_args.features["word_count"] = 1
    /\ ~fn_ret.out.raised
    /\ fn_ret.out.calls = << << <<2, 1>> >> >>
    /\ fn_ret.out.value = "High"

\* C9: a score of 100 comes with exactly the three positive entries, a score
\* of 20 with exactly the thin-content and difficult-to-read warnings.
C9_ExtremesAgree ==
    (fn_ret.scored /\ fn_ret.recommended) =>
        LET wc == fn_args.features.word_count
            sc == fn_args.features.sentence_count
            r == fn_args.features.flesch_reading_ease
        IN  /\ fn_ret.quality_score = 100 <=>
                  /\ wc >= 1500
                  /\ 50 * ReadabilityScale <= r /\ r <= 70 * ReadabilityScale
                  /\ sc > 0 /\ 15 * sc <= wc /\ wc <= 25 * sc
            /\ fn_ret.quality_score = 100 =>
                  fn_ret.recommendations =
                      <<"Excellent length", "Good readability",
                        "Good sentence structure">>
            /\ fn_ret.quality_score = 20 <=> (wc < 500 /\ r <= 0 /\ sc = 0)
            /\ fn_ret.quality_score = 20 =>
                  fn_ret.recommendations = <<"Thin content", "Difficult to read">>

\* 1800 words in 90 sentences at readability 60
C9_Witness ==
    /\ fn_ret.scored /\ fn_ret.recommended
    /\ fn_args.features = [word_count |-> 1800, sentence_count |-> 90,
                           flesch_reading_ease |-> 60 * ReadabilityScale]
    /\ fn_ret.quality_score = 100
    /\ Len(fn_ret.recommendations) = 3

AnalysisNames ==
    {"clean_txt", "features", "quality_label", "quality_score", "readability",
     "quality_icon", "progress_color", "recommendations", "preview"}

RejectionMessages ==
    {"error: Please enter a valid URL", "error: Failed to fetch URL",
     "error: Parsing error", "warning: No content extracted"}

\* C10: features, label, score and recommendations exist in a run only if
\* analysis was triggered with a non-empty URL that starts with http:// or
\* https://, the fetch succeeded, parsing returned no error and a non-zero
\* word_count; the features record then has word_count >= 1.
C10_Gates ==
    (AnalysisNames \cap DOMAIN locals # {}) =>
        /\ locals["analyze_button"]
        /\ locals["url_input"] # <<>>
        /\ \/ /\ Len(locals["url_input"]) >= 7
              /\ SubSeq(locals["url_input"], 1, 7)
                    = <<"h", "t", "t", "p", ":", "/", "/">>
           \/ /\ Len(locals["url_input"]) >= 8
              /\ SubSeq(locals["url_input"], 1, 8)
                    = <<"h", "t", "t", "p", "s", ":", "/", "/">>
        /\ "response" \in DOMAIN locals
        /\ "parsed" \in DOMAIN locals
        /\ "error" \notin DOMAIN locals["parsed"]
        /\ locals["parsed"].word_count >= 1
        /\ {messages[i] : i \in 1..Len(messages)} \cap RejectionMessages = {}
        /\ "features" \in DOMAIN locals => locals["features"].word_count >= 1

\* a run the example button started, analysed to the end on a one-word page
C10_Witness ==
    /\ pc = "idle"
    /\ "recommendations" \in DOMAIN locals
    /\ locals["features"].word_count = 1
    /\ locals["url_input"] = example_urls[1]
    /\ ~event.analyze_click

=============================================================================
